---- MODULE Spec2Model ----
(***************************************************************************)
(* Model of cuneus' multi-pass compute layer: the per-buffer ping-pong     *)
(* MultiPassManager (src/src/compute/multipass.rs), the PassDescription    *)
(* data (src/src/compute/builder.rs) and the dispatch driver that walks    *)
(* the pass list against the manager.                                      *)
(*                                                                         *)
(* A GPU resource is modelled by the identity the device hands out when it *)
(* is created (a fresh number per create_texture / create_bind_group call) *)
(* plus, for a texture, its extent; a bind group records the texture its   *)
(* view was made from.                                                     *)
(***************************************************************************)
EXTENDS Naturals, Sequences, FiniteSets

\* ---------------------------------------------------------------- bounds
\* number of clear_all()/resize() calls explored after construction
MaxGenerations == 2
\* number of mark_written() calls per buffer explored between two
\* flip_buffers()/clear_all()/resize() calls
MaxCommits == 2
\* number of successful hot reloads explored
MaxReloads == 2
\* number of builder calls explored between new() and build()
MaxCalls == 3

\* ------------------------------------------------------------ vocabulary
\* entry-point / buffer names used by the examples, in a fixed enumeration
\* order (stands for the iteration order of the manager's HashMaps)
NameOrder == <<"buffer_a", "buffer_b", "buffer_c", "buffer_d", "main_image">>

NameUniverse == {NameOrder[i] : i \in 1..Len(NameOrder)}

\* largest surface extent of the dispatch-grid scenarios
MaxDim == 5

\* surface sizes handed to resize()
Sizes == {<<1, 1>>, <<2, 3>>}

\* core.size when the manager is created
InitialSize == <<2, 3>>

\* the panic raised by `.expect("Buffer not found")`
Panic == [panic |-> "Buffer not found"]

\* Option::None and Option::Some(x)
None == <<>>

Some(x) == <<x>>

Range(s) == {s[i] : i \in 1..Len(s)}

IndexOf(n) == CHOOSE i \in 1..Len(NameOrder) : NameOrder[i] = n

\* position (0-based) of key n when the key set S is iterated
Rank(S, n) == Cardinality({m \in S : IndexOf(m) < IndexOf(n)})

\* ------------------------------------------------------ pass descriptions
\* new keeping the three inputs a kernel can sample and dropping the rest
PassDescription_new_Truncated(name, inputs) ==
    [name |-> name,
     inputs |-> [k \in 1..(IF Len(inputs) > 3 THEN 3 ELSE Len(inputs)) |-> inputs[k]],
     workgroup_size |-> None]

PassDescription_new(name, inputs) ==
    [name |-> name, inputs |-> inputs, workgroup_size |-> None]

\* PassDescription::with_workgroup_size
PassDescription_with_workgroup_size(p, size) ==
    [p EXCEPT !.workgroup_size = Some(size)]

\* pass lists of the examples and of the scenarios of the specification
Mandelbulb ==
    << PassDescription_new("buffer_a", <<"buffer_a">>),
       PassDescription_new("main_image", <<"buffer_a">>) >>

Lich ==
    << PassDescription_new("buffer_a", <<>>),
       PassDescription_new("buffer_b", <<"buffer_a", "buffer_b">>),
       PassDescription_new("main_image", <<"buffer_b">>) >>

Chain ==
    << PassDescription_new("buffer_a", <<>>),
       PassDescription_new("buffer_b", <<"buffer_a">>),
       PassDescription_new("main_image", <<"buffer_b">>) >>

Diamond ==
    << PassDescription_new("buffer_a", <<>>),
       PassDescription_new("buffer_b", <<"buffer_a">>),
       PassDescription_new("buffer_c", <<"buffer_a">>),
       PassDescription_new("buffer_d", <<"buffer_b", "buffer_c">>) >>

Feedback ==
    << PassDescription_new("buffer_a", <<"buffer_b">>),
       PassDescription_new("buffer_b", <<"buffer_b", "buffer_a">>),
       PassDescription_new("main_image", <<"buffer_a", "buffer_b", "main_image">>) >>

PassLists == {Mandelbulb, Lich, Chain, Diamond, Feedback}

\* the five passes of currents.rs
Currents ==
    << PassDescription_new("buffer_a", <<"buffer_a">>),
       PassDescription_new("buffer_b", <<"buffer_b", "buffer_a">>),
       PassDescription_new("buffer_c", <<"buffer_c", "buffer_a">>),
       PassDescription_new("buffer_d", <<"buffer_d", "buffer_c", "buffer_b">>),
       PassDescription_new("main_image", <<"buffer_d">>) >>

\* passes reading producers one, two, three and four passes earlier
LongReads ==
    << PassDescription_new("buffer_a", <<>>),
       PassDescription_new("buffer_b", <<"buffer_a">>),
       PassDescription_new("buffer_c", <<"buffer_c", "buffer_a">>),
       PassDescription_new("buffer_d", <<"buffer_d", "buffer_a", "buffer_c">>),
       PassDescription_new("main_image", <<"buffer_a", "buffer_b", "buffer_d">>) >>

\* pass lists a caller can hand to the builder by mistake
SinglePass == << PassDescription_new("buffer_a", <<"buffer_a">>) >>

FourInputs ==
    << PassDescription_new("buffer_a", <<>>),
       PassDescription_new("buffer_b",
                           <<"buffer_b", "buffer_a", "buffer_b", "buffer_a">>),
       PassDescription_new("main_image", <<"buffer_b">>) >>

Undeclared ==
    << PassDescription_new("buffer_a", <<"buffer_c">>),
       PassDescription_new("main_image", <<"buffer_a">>) >>

Duplicate ==
    << PassDescription_new("buffer_a", <<>>),
       PassDescription_new("buffer_a", <<"buffer_a">>),
       PassDescription_new("main_image", <<"buffer_a">>) >>

\* a pass list with per-pass dispatch overrides, after the layers of cnn.rs
Layers ==
    << PassDescription_with_workgroup_size(
           PassDescription_new("buffer_a", <<>>), <<28, 28, 1>>),
       PassDescription_with_workgroup_size(
           PassDescription_new("buffer_b", <<"buffer_a">>), <<12, 12, 16>>),
       PassDescription_new("main_image", <<"buffer_b">>) >>

BuilderPassLists == {Lich, SinglePass, FourInputs, Undeclared, Duplicate}

\* entry points handed to with_entry_point
EntryPoints == {"main", "buffer_a"}

\* ------------------------------------------------------------------ builder
\* ComputeShaderBuilder::new: the configuration every builder starts from
ComputeShaderBuilder_new ==
    [entry_points |-> <<"main">>,
     passes |-> None,
     custom_uniform_size |-> None,
     has_input_texture |-> FALSE,
     has_mouse |-> FALSE,
     has_fonts |-> FALSE,
     has_audio |-> FALSE,
     has_atomic_buffer |-> FALSE,
     audio_buffer_size |-> 1024,
     has_audio_spectrum |-> FALSE,
     audio_spectrum_size |-> 128,
     storage_buffers |-> <<>>,
     workgroup_size |-> <<16, 16, 1>>,
     dispatch_once |-> FALSE,
     texture_format |-> "Rgba16Float",
     label |-> "Compute Shader",
     num_channels |-> None,
     hot_reload_path |-> None]

\* with_entry_point going back to a single-pass configuration
with_entry_point_ClearsPasses(b, entry_point) ==
    [b EXCEPT !.entry_points = <<entry_point>>, !.passes = None]

with_entry_point(b, entry_point) ==
    [b EXCEPT !.entry_points = <<entry_point>>]

\* with_multi_pass keeping the entry points set before
with_multi_pass_KeepEntryPoints(b, ps) == [b EXCEPT !.passes = Some(ps)]

with_multi_pass(b, ps) ==
    [b EXCEPT !.passes = Some(ps),
              !.entry_points = [i \in 1..Len(ps) |-> ps[i].name]]

with_custom_uniforms(b, size) == [b EXCEPT !.custom_uniform_size = Some(size)]

with_input_texture(b) == [b EXCEPT !.has_input_texture = TRUE]

with_channels(b, n) == [b EXCEPT !.num_channels = Some(n)]

with_mouse(b) == [b EXCEPT !.has_mouse = TRUE]

\* with_fonts setting the flag of the method above it
with_fonts_SetsMouse(b) == [b EXCEPT !.has_mouse = TRUE]

with_fonts(b) == [b EXCEPT !.has_fonts = TRUE]

with_audio(b, buffer_size) ==
    [b EXCEPT !.has_audio = TRUE, !.audio_buffer_size = buffer_size]

with_audio_spectrum(b, spectrum_size) ==
    [b EXCEPT !.has_audio_spectrum = TRUE, !.audio_spectrum_size = spectrum_size]

with_atomic_buffer(b) == [b EXCEPT !.has_atomic_buffer = TRUE]

with_storage_buffer(b, buffer) ==
    [b EXCEPT !.storage_buffers = Append(@, buffer)]

with_storage_buffers(b, bufs) == [b EXCEPT !.storage_buffers = @ \o bufs]

StorageBufferSpec_new(name, size_bytes) == [name |-> name, size_bytes |-> size_bytes]

\* with_workgroup_size dropping its argument
with_workgroup_size_Ignored(b, size) == b

with_workgroup_size(b, size) == [b EXCEPT !.workgroup_size = size]

dispatch_once(b) == [b EXCEPT !.dispatch_once = TRUE]

with_texture_format(b, format) == [b EXCEPT !.texture_format = format]

with_label(b, label) == [b EXCEPT !.label = label]

with_hot_reload(b, path) == [b EXCEPT !.hot_reload_path = Some(path)]

build(b) == b

\* ----------------------------------------------------------- Group 2 layout
\* the fixed order in which the optional resources get their Group 2 bindings
FeatureOrder ==
    <<"mouse", "fonts", "audio", "audio_spectrum", "atomics", "channels">>

FeatureEnabled(c, feature) ==
    CASE feature = "mouse" -> c.has_mouse
      [] feature = "fonts" -> c.has_fonts
      [] feature = "audio" -> c.has_audio
      [] feature = "audio_spectrum" -> c.has_audio_spectrum
      [] feature = "atomics" -> c.has_atomic_buffer
      [] feature = "channels" -> c.num_channels # None

\* bindings a resource occupies: fonts are a texture and a uniform, every
\* channel is a texture and a sampler
BindingCount(c, feature) ==
    CASE feature = "fonts" -> 2
      [] feature = "channels" -> 2 * c.num_channels[1]
      [] OTHER -> 1

\* the enabled resources from position i on, each with its first binding
RECURSIVE Group2From(_, _, _, _)
Group2From(c, i, binding, acc) ==
    IF i > Len(FeatureOrder) THEN acc
    ELSE IF FeatureEnabled(c, FeatureOrder[i])
         THEN Group2From(c, i + 1, binding + BindingCount(c, FeatureOrder[i]),
                         Append(acc, [feature |-> FeatureOrder[i],
                                      binding |-> binding]))
         ELSE Group2From(c, i + 1, binding, acc)

Group2Layout(c) == Group2From(c, 1, 0, <<>>)

\* ------------------------------------------------------------------ state
VARIABLES
    passes,             \* ComputeConfiguration.passes the shader was built with
    buffers,            \* name -> <<texture .0, texture .1>>
    bind_groups,        \* name -> <<bind group .0, bind group .1>>
    write_side,         \* name -> bool
    output_texture,
    output_bind_group,
    width,
    height,
    next_id,            \* identity the device gives the next created resource
    generation,         \* number of clear_all()/resize() calls so far
    panicked,           \* a lookup hit `.expect("Buffer not found")`
    \* history variables, written by no modelled code path
    commits,            \* name -> mark_written(name) calls by hand since initial_side was taken
    initial_side,       \* name -> bit when the latest other call returned
    last_write,         \* name -> texture that holds the most recently recorded write
    trace,              \* what each pass of the latest dispatch() bound
    prev_trace,         \* the same for the dispatch() of the frame before
    phase,              \* shape of the recent call sequence
    last_op,            \* the latest call and its arguments
    \* what the shader was set up from
    builder,            \* ComputeShaderBuilder.config while it is accumulated
    config,             \* Option of the ComputeConfiguration build() returned
    pipelines,          \* one compute pipeline per entry point
    calls               \* history: the builder calls made so far

vars == << builder, config, pipelines, calls, passes, buffers, bind_groups, write_side, output_texture,
           output_bind_group, width, height, next_id, generation, panicked,
           commits, initial_side, last_write, trace, prev_trace, phase, last_op >>

\* --------------------------------------------------------------- resources
create_storage_texture(id, w, h) == [id |-> id, width |-> w, height |-> h]

create_storage_bind_group(id, texture) == [id |-> id, view |-> texture.id]

\* last position of name n in the list handed to new(): a later insert of the
\* same key replaces the earlier value
LastIndex(names, n) ==
    CHOOSE i \in 1..Len(names) :
        names[i] = n /\ \A j \in (i + 1)..Len(names) : names[j] # n

\* MultiPassManager::new: per listed name two textures, then two bind groups
NewBuffers(names, w, h, base) ==
    [n \in Range(names) |->
        LET i == LastIndex(names, n) IN
        << create_storage_texture(base + 4 * (i - 1), w, h),
           create_storage_texture(base + 4 * (i - 1) + 1, w, h) >>]

NewBindGroups(names, bufs, base) ==
    [n \in Range(names) |->
        LET i == LastIndex(names, n) IN
        << create_storage_bind_group(base + 4 * (i - 1) + 2, bufs[n][1]),
           create_storage_bind_group(base + 4 * (i - 1) + 3, bufs[n][2]) >>]

\* new starting every buffer as "last write went to .0"
NewWriteSide_True(names) == [n \in Range(names) |-> TRUE]

NewWriteSide(names) == [n \in Range(names) |-> FALSE]

\* -------------------------------------------------------------- resolution
\* a name that is not tracked reported as "last write went to .0"
LastWrote0_DefaultTrue(ws, name) == IF name \in DOMAIN ws THEN ws[name] ELSE TRUE

\* self.write_side.get(name).copied().unwrap_or(false)
LastWrote0(ws, name) == IF name \in DOMAIN ws THEN ws[name] ELSE FALSE

\* the write bind group resolving to the side that was written last
WriteBindGroupOf_ReadSide(bgs, ws, name) ==
    IF name \notin DOMAIN bgs THEN Panic
    ELSE IF LastWrote0(ws, name) THEN bgs[name][1] ELSE bgs[name][2]

WriteBindGroupOf(bgs, ws, name) ==
    IF name \notin DOMAIN bgs THEN Panic
    ELSE IF LastWrote0(ws, name) THEN bgs[name][2] ELSE bgs[name][1]

\* write handing out a side of some other buffer when the name is unknown
WriteTextureOf_Substitute(bufs, ws, name) ==
    IF name \notin DOMAIN bufs
    THEN (IF DOMAIN bufs = {} THEN Panic
          ELSE bufs[CHOOSE n \in DOMAIN bufs : TRUE][1])
    ELSE IF LastWrote0(ws, name) THEN bufs[name][2] ELSE bufs[name][1]

WriteTextureOf(bufs, ws, name) ==
    IF name \notin DOMAIN bufs THEN Panic
    ELSE IF LastWrote0(ws, name) THEN bufs[name][2] ELSE bufs[name][1]

\* read resolving to the side write resolves to
ReadTextureOf_WriteSide(bufs, ws, name) ==
    IF name \notin DOMAIN bufs THEN Panic
    ELSE IF LastWrote0(ws, name) THEN bufs[name][2] ELSE bufs[name][1]

\* read failing for a buffer whose bit is still false
ReadTextureOf_NeverWritten(bufs, ws, name) ==
    IF name \notin DOMAIN bufs \/ ~LastWrote0(ws, name) THEN Panic
    ELSE bufs[name][1]

\* the getters a caller can resolve a name through
Getters == {"get_write_bind_group", "get_write_texture", "get_read_texture"}

ReadTextureOf(bufs, ws, name) ==
    IF name \notin DOMAIN bufs THEN Panic
    ELSE IF LastWrote0(ws, name) THEN bufs[name][1] ELSE bufs[name][2]

get_write_bind_group(name) == WriteBindGroupOf(bind_groups, write_side, name)

get_write_texture(name) == WriteTextureOf(buffers, write_side, name)

get_read_texture(name) == ReadTextureOf(buffers, write_side, name)

\* the output getter handing out a bind group of a ping-pong pair
get_output_bind_group_PingPong ==
    bind_groups[CHOOSE n \in DOMAIN bind_groups : TRUE][1]

get_output_bind_group == output_bind_group

get_output_texture == output_texture

get_write_side(name) == LastWrote0(write_side, name)

\* ------------------------------------------------------------- transitions
\* mark_written storing "wrote .0" instead of toggling
MarkWrittenOf_SetTrue(ws, name) ==
    IF name \in DOMAIN ws THEN [ws EXCEPT ![name] = TRUE] ELSE ws

\* mark_written starting to track a name it does not know
MarkWrittenOf_Insert(ws, name) ==
    [n \in DOMAIN ws \cup {name} |->
        IF n \notin DOMAIN ws THEN TRUE ELSE IF n = name THEN ~ws[n] ELSE ws[n]]

\* mark_written toggling every buffer (the global flip)
MarkWrittenOf_FlipAll(ws, name) == [n \in DOMAIN ws |-> ~ws[n]]

\* mark_written leaving the bit alone
MarkWrittenOf_Noop(ws, name) == ws

MarkWrittenOf(ws, name) ==
    IF name \in DOMAIN ws THEN [ws EXCEPT ![name] = ~ws[name]] ELSE ws

\* flip_buffers storing "wrote .0" for every buffer instead of toggling
FlipBuffersOf_SetAll(ws) == [n \in DOMAIN ws |-> TRUE]

\* flip_buffers leaving every bit as it is
FlipBuffersOf_Noop(ws) == ws

FlipBuffersOf(ws) == [n \in DOMAIN ws |-> ~ws[n]]

\* clear_all recreating only texture .0 of each pair
ClearBuffers_KeepSide1(bufs, w, h, base) ==
    [n \in DOMAIN bufs |->
        << create_storage_texture(base + 2 * Rank(DOMAIN bufs, n), w, h),
           bufs[n][2] >>]

\* MultiPassManager::clear_all, first loop: both textures of every buffer
ClearBuffers(bufs, w, h, base) ==
    [n \in DOMAIN bufs |->
        << create_storage_texture(base + 2 * Rank(DOMAIN bufs, n), w, h),
           create_storage_texture(base + 2 * Rank(DOMAIN bufs, n) + 1, w, h) >>]

\* the second loop keeping the views of the textures that were replaced
ClearBindGroups_StaleViews(bgs, bufs, base) ==
    [n \in DOMAIN bgs |->
        << [id |-> base + 2 * Rank(DOMAIN bgs, n), view |-> bgs[n][1].view],
           [id |-> base + 2 * Rank(DOMAIN bgs, n) + 1, view |-> bgs[n][2].view] >>]

\* second loop: both bind groups of every buffer, from the textures just made
ClearBindGroups(bgs, bufs, base) ==
    [n \in DOMAIN bgs |->
        << create_storage_bind_group(base + 2 * Rank(DOMAIN bgs, n), bufs[n][1]),
           create_storage_bind_group(base + 2 * Rank(DOMAIN bgs, n) + 1, bufs[n][2]) >>]

\* last loop: every bit back to false
ClearWriteSide(ws) == [n \in DOMAIN ws |-> FALSE]

\* the whole of clear_all as a function of the manager's fields
ClearAllOf(m, base) ==
    LET nb   == Cardinality(DOMAIN m.buffers)
        ng   == Cardinality(DOMAIN m.bind_groups)
        bufs == ClearBuffers(m.buffers, m.width, m.height, base)
        bgs  == ClearBindGroups(m.bind_groups, bufs, base + 2 * nb)
        out  == create_storage_texture(base + 2 * nb + 2 * ng, m.width, m.height)
    IN  [ buffers           |-> bufs,
          bind_groups       |-> bgs,
          write_side        |-> ClearWriteSide(m.write_side),
          output_texture    |-> out,
          output_bind_group |-> create_storage_bind_group(base + 2 * nb + 2 * ng + 1, out),
          width             |-> m.width,
          height            |-> m.height,
          next_id           |-> base + 2 * nb + 2 * ng + 2 ]

\* resize storing the new extent only after clear_all has run
ResizeOf_StoreAfter(m, w, h, base) ==
    [ClearAllOf(m, base) EXCEPT !.width = w, !.height = h]

\* MultiPassManager::resize
ResizeOf(m, w, h, base) ==
    ClearAllOf([m EXCEPT !.width = w, !.height = h], base)

Manager ==
    [ buffers |-> buffers, bind_groups |-> bind_groups, write_side |-> write_side,
      output_texture |-> output_texture, output_bind_group |-> output_bind_group,
      width |-> width, height |-> height, next_id |-> next_id ]

\* --------------------------------------------------------- dispatch driver
\* the names the manager is created with: one per declared pass, in order
BufferNames(ps) == [i \in 1..Len(ps) |-> ps[i].name]

\* MultiPassManager::first_buffer_name: the first key the map iterates
first_buffer_name ==
    IF DOMAIN buffers = {} THEN None
    ELSE Some(CHOOSE n \in DOMAIN buffers : Rank(DOMAIN buffers, n) = 0)

\* number of input textures a kernel can sample (input_texture0..2)
InputSlotCount == 3

\* step (1): the three input slots of a pass; slot s takes the s-th input, a
\* slot past the end of the list repeats the first input, and a pass without
\* inputs samples the first buffer of the manager
InputSlots(inputs, ws) ==
    [s \in 1..InputSlotCount |->
        IF s <= Len(inputs) THEN ReadTextureOf(buffers, ws, inputs[s])
        ELSE IF Len(inputs) > 0 THEN ReadTextureOf(buffers, ws, inputs[1])
        ELSE IF first_buffer_name = None THEN Panic
        ELSE ReadTextureOf(buffers, ws, first_buffer_name[1])]

\* u32::div_ceil
DivCeil(a, b) == IF a % b > 0 THEN (a \div b) + 1 ELSE a \div b

\* step (3): the workgroup counts handed to dispatch_workgroups(x, y, z)
DispatchGrid(p, workgroup_size, w, h) ==
    IF p.workgroup_size # None THEN p.workgroup_size[1]
    ELSE << DivCeil(w, workgroup_size[1]), DivCeil(h, workgroup_size[2]), 1 >>

\* the designated final pass writes the Output instead of a ping-pong side
IsFinalPass(p) == p.name = "main_image"

\* steps (1) and (2) of one pass: every input through read, the pass's own
\* target through write (or the Output), all against the bits ws
ResolvePass(p, ws) ==
    [ name   |-> p.name,
      inputs |-> p.inputs,
      reads  |-> [k \in 1..Len(p.inputs) |-> ReadTextureOf(buffers, ws, p.inputs[k])],
      slots  |-> InputSlots(p.inputs, ws),
      grid   |-> DispatchGrid(p, config[1].workgroup_size, width, height),
      target |-> IF IsFinalPass(p) THEN get_output_bind_group
                 ELSE WriteBindGroupOf(bind_groups, ws, p.name),
      bits   |-> ws ]

Failed(r) == r.target = Panic \/ \E k \in 1..Len(r.reads) : r.reads[k] = Panic

\* steps (1)..(5) for the passes i..Len(ps) in declaration order; a failed
\* lookup ends the walk
RECURSIVE RunPasses(_, _, _, _)
RunPasses(ps, i, ws, acc) ==
    IF i > Len(ps) THEN [write_side |-> ws, trace |-> acc, failed |-> FALSE]
    ELSE LET r == ResolvePass(ps[i], ws) IN
         IF Failed(r) THEN [write_side |-> ws, trace |-> Append(acc, r), failed |-> TRUE]
         ELSE RunPasses(ps, i + 1, MarkWrittenOf(ws, ps[i].name), Append(acc, r))

\* the same walk under the old global flip: every bit toggled after each pass
RECURSIVE RunPassesGlobalFlip(_, _, _, _)
RunPassesGlobalFlip(ps, i, ws, acc) ==
    IF i > Len(ps) THEN [write_side |-> ws, trace |-> acc, failed |-> FALSE]
    ELSE LET r == ResolvePass(ps[i], ws) IN
         IF Failed(r) THEN [write_side |-> ws, trace |-> Append(acc, r), failed |-> TRUE]
         ELSE RunPassesGlobalFlip(ps, i + 1, FlipBuffersOf(ws), Append(acc, r))

\* ------------------------------------------------------- history variables
\* texture a recorded pass wrote: the one its target bind group views
Written(r) == r.target.view

WritesBuffer(r) == r.target # Panic /\ r.target # output_bind_group

\* last record of tr that wrote buffer n (0 when there is none)
LastWriter(tr, n) ==
    IF \E i \in 1..Len(tr) : tr[i].name = n /\ WritesBuffer(tr[i])
    THEN CHOOSE i \in 1..Len(tr) :
            /\ tr[i].name = n /\ WritesBuffer(tr[i])
            /\ \A j \in (i + 1)..Len(tr) : ~(tr[j].name = n /\ WritesBuffer(tr[j]))
    ELSE 0

LastWriteAfter(lw, tr) ==
    [n \in DOMAIN lw |->
        IF LastWriter(tr, n) = 0 THEN lw[n] ELSE Written(tr[LastWriter(tr, n)])]

\* "fresh": nothing since new/clear_all/resize; "fresh_d": one dispatch right
\* after that; "d": one dispatch; "dd": two dispatches in a row; "df": a
\* dispatch then one flip_buffers; "dfd": dispatch, flip_buffers, dispatch;
\* "x": anything else
\* last_op of a driver call also keeps `frames`, how far the call advanced
\* current_frame, and for dispatch_stage the stage asked for and the
\* dispatches it recorded
PhaseAfter(op, ph) ==
    CASE op = "dispatch" ->
            (CASE ph = "fresh" -> "fresh_d"
               [] ph \in {"fresh_d", "d", "dd", "dfd"} -> "dd"
               [] ph = "df" -> "dfd"
               [] OTHER -> "d")
      [] op = "flip_buffers" ->
            (IF ph \in {"fresh_d", "d", "dd", "dfd"} THEN "df" ELSE "x")
      [] op \in {"clear_all", "resize"} -> "fresh"
      [] OTHER -> "x"

Op(name) == [op |-> name, w |-> 0, h |-> 0]

\* every driver call advancing the counter
FrameAdvance_Always(op) == 1

\* how far a driver call advances ComputeShader.current_frame: dispatch()
\* counts the frame itself, dispatch_stage() "doesn't auto-increment"
FrameAdvance(op) == IF op = "dispatch" THEN 1 ELSE 0

\* ------------------------------------------------------------------ actions
\* the calls new().with_multi_pass(ps) as the history records them
CallsOfMultiPass(ps) ==
    [count |-> 1, entry |-> [method |-> "with_multi_pass", passes |-> ps],
     before |-> "new", features |-> {}, channels |-> None,
     workgroup_size |-> <<16, 16, 1>>]

\* one pipeline per entry point, all compiled from the shader source `module`
CreatePipelines(entry_points, module) ==
    [i \in 1..Len(entry_points) |-> [entry_point |-> entry_points[i], module |-> module]]

\* a failed compile tearing the running pipelines down
HotReloadOf_DropOnFailure(pl, entry_points, compiled) ==
    IF compiled THEN CreatePipelines(entry_points, pl[1].module + 1) ELSE <<>>

\* the pipelines after the hot-reload check saw an edited source: rebuilt as a
\* whole from the new module when it compiled, left alone when it did not
HotReloadOf(pl, entry_points, compiled) ==
    IF compiled THEN CreatePipelines(entry_points, pl[1].module + 1) ELSE pl

\* a shader built from b by build() and created at the surface size `size`
Running(b, h, size) ==
    /\ builder = b
    /\ calls = h
    /\ config = Some(build(builder))
    /\ pipelines = CreatePipelines(config[1].entry_points, 0)
    /\ passes = config[1].passes[1]
    /\ width = size[1]
    /\ height = size[2]
    /\ buffers = NewBuffers(BufferNames(passes), width, height, 1)
    /\ bind_groups = NewBindGroups(BufferNames(passes), buffers, 1)
    /\ output_texture = create_storage_texture(1 + 4 * Len(passes), width, height)
    /\ output_bind_group =
          create_storage_bind_group(2 + 4 * Len(passes), output_texture)
    /\ write_side = NewWriteSide(BufferNames(passes))
    /\ next_id = 3 + 4 * Len(passes)
    /\ generation = 0
    /\ panicked = FALSE
    /\ commits = [n \in DOMAIN write_side |-> 0]
    /\ initial_side = write_side
    /\ last_write = [n \in DOMAIN write_side |-> 0]
    /\ trace = <<>>
    /\ prev_trace = <<>>
    /\ phase = "fresh"
    /\ last_op = Op("new")

Init ==
    \E ps \in PassLists :
        Running(with_multi_pass(ComputeShaderBuilder_new, ps),
                CallsOfMultiPass(ps), InitialSize)

\* mark_written(name), called by hand after recording a write to write(name)
MarkWritten(name) ==
    /\ ~panicked
    /\ name \in DOMAIN commits => commits[name] < MaxCommits
    /\ write_side' = MarkWrittenOf(write_side, name)
    /\ commits' = [n \in DOMAIN commits |->
                      IF n = name THEN commits[n] + 1 ELSE commits[n]]
    /\ last_write' = [n \in DOMAIN last_write |->
                      IF n = name THEN get_write_texture(n).id ELSE last_write[n]]
    /\ phase' = PhaseAfter("mark_written", phase)
    /\ trace' = <<>>
    /\ prev_trace' = <<>>
    /\ last_op' = Op("mark_written")
    /\ UNCHANGED << builder, config, pipelines, calls, passes, buffers, bind_groups, output_texture, output_bind_group,
                    width, height, next_id, generation, panicked, initial_side >>

FlipBuffers ==
    /\ ~panicked
    /\ write_side' = FlipBuffersOf(write_side)
    /\ commits' = [n \in DOMAIN commits |-> 0]
    /\ initial_side' = write_side'
    /\ phase' = PhaseAfter("flip_buffers", phase)
    /\ trace' = IF phase' = "df" THEN trace ELSE <<>>
    /\ prev_trace' = <<>>
    /\ last_op' = Op("flip_buffers")
    /\ UNCHANGED << builder, config, pipelines, calls, passes, buffers, bind_groups, output_texture, output_bind_group,
                    width, height, next_id, generation, panicked, last_write >>

\* the manager's fields become m; every history variable starts over
Recreated(m, op) ==
    /\ buffers' = m.buffers
    /\ bind_groups' = m.bind_groups
    /\ write_side' = m.write_side
    /\ output_texture' = m.output_texture
    /\ output_bind_group' = m.output_bind_group
    /\ width' = m.width
    /\ height' = m.height
    /\ next_id' = m.next_id
    /\ generation' = generation + 1
    /\ commits' = [n \in DOMAIN commits |-> 0]
    /\ initial_side' = m.write_side
    /\ last_write' = [n \in DOMAIN last_write |-> 0]
    /\ phase' = PhaseAfter(op.op, phase)
    /\ trace' = <<>>
    /\ prev_trace' = <<>>
    /\ last_op' = op
    /\ UNCHANGED << builder, config, pipelines, calls, passes, panicked >>

ClearAll ==
    /\ ~panicked
    /\ generation < MaxGenerations
    /\ \E m \in {ClearAllOf(Manager, next_id)} : Recreated(m, Op("clear_all"))

Resize(w, h) ==
    /\ ~panicked
    /\ generation < MaxGenerations
    /\ \E m \in {ResizeOf(Manager, w, h, next_id)} :
          Recreated(m, [op |-> "resize", w |-> w, h |-> h])

\* ComputeShader::dispatch: every declared pass, in order
Dispatch ==
    /\ ~panicked
    /\ \E run \in {RunPasses(passes, 1, write_side, <<>>)} :
        /\ write_side' = run.write_side
        /\ panicked' = run.failed
        /\ commits' = [n \in DOMAIN commits |-> 0]
        /\ initial_side' = run.write_side
        /\ last_write' = LastWriteAfter(last_write, run.trace)
        /\ phase' = PhaseAfter("dispatch", phase)
        /\ trace' = run.trace
        /\ prev_trace' = IF phase' \in {"dd", "dfd"} THEN trace ELSE <<>>
    /\ last_op' = [op |-> "dispatch", w |-> 0, h |-> 0,
                   frames |-> FrameAdvance("dispatch")]
    /\ UNCHANGED << builder, config, pipelines, calls, passes, buffers, bind_groups, output_texture, output_bind_group,
                    width, height, next_id, generation >>

\* ComputeShader::dispatch_stage: the one pass at position i
DispatchStage(i) ==
    /\ ~panicked
    /\ \E run \in {RunPasses(<<passes[i]>>, 1, write_side, <<>>)} :
        /\ write_side' = run.write_side
        /\ panicked' = run.failed
        /\ commits' = [n \in DOMAIN commits |-> 0]
        /\ initial_side' = run.write_side
        /\ last_write' = LastWriteAfter(last_write, run.trace)
    /\ phase' = PhaseAfter("dispatch_stage", phase)
    /\ trace' = <<>>
    /\ prev_trace' = <<>>
    /\ last_op' = [op |-> "dispatch_stage", w |-> 0, h |-> 0, stage |-> i,
                   recorded |-> RunPasses(<<passes[i]>>, 1, write_side, <<>>).trace,
                   frames |-> FrameAdvance("dispatch_stage")]
    /\ UNCHANGED << builder, config, pipelines, calls, passes, buffers, bind_groups, output_texture, output_bind_group,
                    width, height, next_id, generation >>

\* a caller resolving `name` through one of the getters: the handle comes back
\* and nothing is stored, or `.expect("Buffer not found")` ends the program
Resolved(getter, name) ==
    CASE getter = "get_write_bind_group" -> get_write_bind_group(name)
      [] getter = "get_write_texture" -> get_write_texture(name)
      [] getter = "get_read_texture" -> get_read_texture(name)

Lookup(getter, name) ==
    /\ ~panicked
    /\ IF Resolved(getter, name) = Panic
       THEN /\ panicked' = TRUE
            /\ last_op' = [op |-> getter, w |-> 0, h |-> 0, name |-> name]
            /\ UNCHANGED << builder, config, pipelines, calls, passes, buffers,
                            bind_groups, write_side, output_texture,
                            output_bind_group, width, height, next_id, generation,
                            commits, initial_side, last_write, trace, prev_trace,
                            phase >>
       ELSE UNCHANGED vars

Next ==
    \/ \E name \in NameUniverse : MarkWritten(name)
    \/ FlipBuffers
    \/ ClearAll
    \/ \E size \in Sizes : Resize(size[1], size[2])
    \/ Dispatch
    \/ \E i \in 1..Len(passes) : DispatchStage(i)

Spec == Init /\ [][Next]_vars

\* ------------------------------------------------------- builder actions
\* no shader exists yet: the builder has just been made by new()
InitBuilder ==
    /\ builder = ComputeShaderBuilder_new
    /\ config = None
    /\ pipelines = <<>>
    /\ calls = [count |-> 0, entry |-> [method |-> "new"], before |-> "new",
                features |-> {}, channels |-> None,
                workgroup_size |-> <<16, 16, 1>>]
    /\ passes = <<>>
    /\ buffers = <<>>
    /\ bind_groups = <<>>
    /\ write_side = <<>>
    /\ output_texture = None
    /\ output_bind_group = None
    /\ width = 0
    /\ height = 0
    /\ next_id = 1
    /\ generation = 0
    /\ panicked = FALSE
    /\ commits = <<>>
    /\ initial_side = <<>>
    /\ last_write = <<>>
    /\ trace = <<>>
    /\ prev_trace = <<>>
    /\ phase = "fresh"
    /\ last_op = Op("new")

\* one fluent call: the builder becomes b, the history becomes h
Call(b, h) ==
    /\ config = None
    /\ calls.count < MaxCalls
    /\ builder' = b
    /\ calls' = [h EXCEPT !.count = calls.count + 1]
    /\ UNCHANGED << config, pipelines, passes, buffers, bind_groups, write_side,
                    output_texture, output_bind_group, width, height, next_id,
                    generation, panicked, commits, initial_side, last_write,
                    trace, prev_trace, phase, last_op >>

Enabling(feature) == [calls EXCEPT !.features = @ \cup {feature}]

WithEntryPoint(e) ==
    Call(with_entry_point(builder, e),
         [calls EXCEPT !.entry = [method |-> "with_entry_point", entry_point |-> e],
                       !.before = calls.entry.method])

WithMultiPass(ps) ==
    Call(with_multi_pass(builder, ps),
         [calls EXCEPT !.entry = [method |-> "with_multi_pass", passes |-> ps],
                       !.before = calls.entry.method])

WithCustomUniforms == Call(with_custom_uniforms(builder, 16), calls)

WithInputTexture == Call(with_input_texture(builder), calls)

WithChannels(n) ==
    Call(with_channels(builder, n),
         [Enabling("channels") EXCEPT !.channels = Some(n)])

WithMouse == Call(with_mouse(builder), Enabling("mouse"))

WithFonts == Call(with_fonts(builder), Enabling("fonts"))

WithAudio == Call(with_audio(builder, 2048), Enabling("audio"))

WithAudioSpectrum ==
    Call(with_audio_spectrum(builder, 69), Enabling("audio_spectrum"))

WithAtomicBuffer == Call(with_atomic_buffer(builder), Enabling("atomics"))

WithStorageBuffer ==
    Call(with_storage_buffer(builder, StorageBufferSpec_new("canvas_data", 3136)),
         calls)

WithStorageBuffers ==
    Call(with_storage_buffers(builder,
            << StorageBufferSpec_new("conv1_data", 9216),
               StorageBufferSpec_new("conv2_data", 2048) >>),
         calls)

WithWorkgroupSize ==
    Call(with_workgroup_size(builder, <<8, 8, 1>>),
         [calls EXCEPT !.workgroup_size = <<8, 8, 1>>])

DispatchOnce == Call(dispatch_once(builder), calls)

WithTextureFormat == Call(with_texture_format(builder, "Rgba8Unorm"), calls)

WithLabel == Call(with_label(builder, "CNN Digit Recognizer"), calls)

WithHotReload == Call(with_hot_reload(builder, "shaders/cnn.wgsl"), calls)

\* build() consumes the builder and hands out its configuration
Build ==
    /\ config = None
    /\ config' = Some(build(builder))
    /\ last_op' = Op("build")
    /\ UNCHANGED << builder, pipelines, calls, passes, buffers, bind_groups,
                    write_side, output_texture, output_bind_group, width, height,
                    next_id, generation, panicked, commits, initial_side,
                    last_write, trace, prev_trace, phase >>

\* ComputeShader::from_builder for a multi-pass configuration: the pipelines
\* and a MultiPassManager holding one buffer per pass name
FromBuilder ==
    /\ config # None
    /\ config[1].passes # None
    /\ pipelines = <<>>
    /\ \E names \in {BufferNames(config[1].passes[1])} :
        /\ pipelines' = CreatePipelines(config[1].entry_points, 0)
        /\ passes' = config[1].passes[1]
        /\ width' = InitialSize[1]
        /\ height' = InitialSize[2]
        /\ buffers' = NewBuffers(names, InitialSize[1], InitialSize[2], 1)
        /\ bind_groups' = NewBindGroups(names, buffers', 1)
        /\ output_texture' =
              create_storage_texture(1 + 4 * Len(names), InitialSize[1], InitialSize[2])
        /\ output_bind_group' =
              create_storage_bind_group(2 + 4 * Len(names), output_texture')
        /\ write_side' = NewWriteSide(names)
        /\ next_id' = 3 + 4 * Len(names)
        /\ commits' = [n \in Range(names) |-> 0]
        /\ initial_side' = write_side'
        /\ last_write' = [n \in Range(names) |-> 0]
    /\ last_op' = Op("from_builder")
    /\ UNCHANGED << builder, config, calls, generation, panicked, trace,
                    prev_trace, phase >>

\* dispatch() of the shader made by FromBuilder
Frame ==
    /\ pipelines # <<>>
    /\ Dispatch

NextBuilder ==
    \/ \E e \in EntryPoints : WithEntryPoint(e)
    \/ \E ps \in BuilderPassLists : WithMultiPass(ps)
    \/ WithCustomUniforms
    \/ WithInputTexture
    \/ \E n \in 1..2 : WithChannels(n)
    \/ WithMouse
    \/ WithFonts
    \/ WithAudio
    \/ WithAudioSpectrum
    \/ WithAtomicBuffer
    \/ WithStorageBuffer
    \/ WithStorageBuffers
    \/ WithWorkgroupSize
    \/ DispatchOnce
    \/ WithTextureFormat
    \/ WithLabel
    \/ WithHotReload
    \/ Build
    \/ FromBuilder
    \/ Frame

SpecBuilder == InitBuilder /\ [][NextBuilder]_vars

\* ------------------------------------------------- dispatch-grid scenarios
GridSizes == {<<w, h>> : w, h \in 1..MaxDim}

WorkgroupSizes == {<<16, 16, 1>>, <<2, 3, 1>>, <<1, 1, 1>>, <<4, 2, 1>>}

\* new().with_multi_pass(ps).with_workgroup_size(wg).build(), created at any
\* of the surface sizes
InitGrid ==
    \E ps \in {Layers, Mandelbulb}, wg \in WorkgroupSizes, size \in GridSizes :
        Running(with_workgroup_size(
                    with_multi_pass(ComputeShaderBuilder_new, ps), wg),
                [CallsOfMultiPass(ps) EXCEPT !.count = 2, !.workgroup_size = wg],
                size)

NextGrid ==
    \/ Dispatch
    \/ FlipBuffers

SpecGrid == InitGrid /\ [][NextGrid]_vars

\* ------------------------------------------------------------- hot reload
\* check_hot_reload, once per frame: "none" when the source was not edited,
\* "compiled" / "failed" for an edited source
CheckHotReload(outcome) ==
    /\ ~panicked
    /\ config[1].hot_reload_path # None
    /\ IF outcome = "none" THEN UNCHANGED vars
       ELSE /\ outcome = "compiled" => pipelines[1].module < MaxReloads
            /\ pipelines' = HotReloadOf(pipelines, config[1].entry_points,
                                        outcome = "compiled")
            /\ last_op' = [op |-> "check_hot_reload", w |-> 0, h |-> 0,
                           compiled |-> (outcome = "compiled")]
            /\ UNCHANGED << builder, config, calls, passes, buffers, bind_groups,
                            write_side, output_texture, output_bind_group, width,
                            height, next_id, generation, panicked, commits,
                            initial_side, last_write, trace, prev_trace, phase >>

InitReload ==
    \E ps \in PassLists :
        Running(with_hot_reload(with_multi_pass(ComputeShaderBuilder_new, ps),
                                "shaders/currents.wgsl"),
                [CallsOfMultiPass(ps) EXCEPT !.count = 2], InitialSize)

NextReload ==
    \/ \E outcome \in {"none", "compiled", "failed"} : CheckHotReload(outcome)
    \/ Dispatch
    \/ FlipBuffers

SpecReload == InitReload /\ [][NextReload]_vars

\* -------------------------------------------- long-range read scenarios
InitPolicy ==
    \E ps \in {Currents, LongReads, Duplicate} :
        Running(with_multi_pass(ComputeShaderBuilder_new, ps),
                CallsOfMultiPass(ps), InitialSize)

NextPolicy ==
    \/ Dispatch
    \/ FlipBuffers
    \/ \E i \in 1..Len(passes) : DispatchStage(i)

SpecPolicy == InitPolicy /\ [][NextPolicy]_vars

\* ------------------------------------------------------- resolution queries
NamedQueries == Getters \cup {"get_write_side"}

OutputAccessors == {"get_output_texture", "get_output_bind_group"}

\* what a query hands back
Queried(getter, name) ==
    CASE getter \in Getters -> Resolved(getter, name)
      [] getter = "get_write_side" -> get_write_side(name)
      [] getter = "get_output_texture" -> get_output_texture
      [] getter = "get_output_bind_group" -> get_output_bind_group

\* a query that also commits the buffer it resolved
Query_MarksWritten(getter, name) ==
    /\ ~panicked
    /\ ~(getter \in Getters /\ Resolved(getter, name) = Panic)
    /\ last_op' = [op |-> getter, w |-> 0, h |-> 0, name |-> name,
                   result |-> Queried(getter, name)]
    /\ write_side' = MarkWrittenOf(write_side, name)
    /\ UNCHANGED << builder, config, pipelines, calls, passes, buffers,
                    bind_groups, output_texture, output_bind_group,
                    width, height, next_id, generation, panicked, commits,
                    initial_side, last_write, trace, prev_trace, phase >>

\* a caller keeping what one of the `&self` queries returned: the manager is
\* left as it was (the queries of the Output take no name)
Query(getter, name) ==
    /\ ~panicked
    /\ ~(getter \in Getters /\ Resolved(getter, name) = Panic)
    /\ last_op' = [op |-> getter, w |-> 0, h |-> 0, name |-> name,
                   result |-> Queried(getter, name)]
    /\ UNCHANGED << builder, config, pipelines, calls, passes, buffers,
                    bind_groups, write_side, output_texture, output_bind_group,
                    width, height, next_id, generation, panicked, commits,
                    initial_side, last_write, trace, prev_trace, phase >>

InitQuery ==
    \E ps \in {Mandelbulb, Duplicate} :
        Running(with_multi_pass(ComputeShaderBuilder_new, ps),
                CallsOfMultiPass(ps), InitialSize)

NextQuery ==
    \/ \E name \in NameUniverse : MarkWritten(name)
    \/ FlipBuffers
    \/ ClearAll
    \/ \E size \in Sizes : Resize(size[1], size[2])
    \/ \E getter \in NamedQueries, name \in NameUniverse : Query(getter, name)
    \/ \E getter \in OutputAccessors : Query(getter, "Output")

SpecQuery == InitQuery /\ [][NextQuery]_vars

\* the manager driven one stage at a time, with lookups of any name
NextLookup ==
    \/ \E i \in 1..Len(passes) : DispatchStage(i)
    \/ FlipBuffers
    \/ ClearAll
    \/ \E size \in Sizes : Resize(size[1], size[2])
    \/ \E getter \in Getters, name \in NameUniverse : Lookup(getter, name)

SpecLookup == Init /\ [][NextLookup]_vars

\* ------------------------------------------------------------ vocabulary of the properties
Registered == Range(BufferNames(passes))

Positions == 1..Len(trace)

\* position of the pass named n in the declared list (0 when none)
PassOf(n) ==
    IF \E i \in 1..Len(passes) : passes[i].name = n
    THEN CHOOSE i \in 1..Len(passes) : passes[i].name = n
    ELSE 0

\* textures written by the passes of the dispatch() recorded in tr
WrittenIn(tr) == {Written(tr[j]) : j \in {i \in 1..Len(tr) : WritesBuffer(tr[i])}}

\* identity of every resource the manager holds
LiveIds ==
    UNION {{buffers[n][1].id, buffers[n][2].id,
            bind_groups[n][1].id, bind_groups[n][2].id} : n \in DOMAIN buffers}
    \cup {output_texture.id, output_bind_group.id}

LiveTextures ==
    UNION {{buffers[n][1], buffers[n][2]} : n \in DOMAIN buffers} \cup {output_texture}

LiveBindGroups ==
    UNION {{bind_groups[n][1], bind_groups[n][2]} : n \in DOMAIN bind_groups}
    \cup {output_bind_group}

\* ------------------------------------------------------------------ C1
\* C1: for every registered buffer, read and write resolve to the two
\* different physical sides of its pair, and the write bind group views the
\* write texture, never the texture exposed to readers.
C1_ReadWriteDistinct ==
    \A n \in Registered :
        /\ get_read_texture(n) \in {buffers[n][1], buffers[n][2]}
        /\ get_write_texture(n) \in {buffers[n][1], buffers[n][2]}
        /\ get_read_texture(n).id # get_write_texture(n).id
        /\ get_write_bind_group(n).view = get_write_texture(n).id
        /\ get_write_bind_group(n).view # get_read_texture(n).id

C1_Witness ==
    /\ generation >= 1
    /\ last_op.op = "flip_buffers"
    /\ \E n, m \in Registered : write_side[n] /\ ~write_side[m]

\* ------------------------------------------------------------------ C2
\* C2: after N calls of mark_written(name) by hand, interleaved with calls for
\* other names, the bit of name is its initial value XOR (N is odd).
C2_CommitParity ==
    \A n \in Registered :
        write_side[n] = (initial_side[n] # (commits[n] % 2 = 1))

C2_Witness ==
    \E n, m \in Registered :
        /\ n # m
        /\ commits[n] = 2 /\ commits[m] = 1
        /\ initial_side[n] /\ ~initial_side[m]

\* ------------------------------------------------------------------ C3
\* C3: for every buffer with a recorded write since its allocation, read
\* resolves to the texture holding the most recent recorded write and write
\* to the other one.
C3_ReadIsLastWrite ==
    \A n \in Registered :
        last_write[n] # 0 =>
            /\ get_read_texture(n).id = last_write[n]
            /\ get_write_texture(n).id # last_write[n]

\* ------------------------------------------------------------------ C4
\* C4: within one dispatch(), an input produced by an earlier-declared pass
\* resolves to the texture that pass wrote in this call; an input produced by
\* the pass itself or by a later-declared pass resolves to no texture written
\* in this call.
C4_DeclarationOrder ==
    \A i \in Positions : \A k \in 1..Len(trace[i].inputs) :
        LET j == PassOf(trace[i].inputs[k]) IN
        /\ (j # 0 /\ j < i) => trace[i].reads[k].id = Written(trace[j])
        /\ (j # 0 /\ j >= i) => trace[i].reads[k].id \notin WrittenIn(trace)

C4_Witness ==
    /\ phase = "dd"
    /\ Len(trace) = Len(passes)
    /\ \E i \in Positions : \E k \in 1..Len(trace[i].inputs) :
          PassOf(trace[i].inputs[k]) \in 1..(i - 2)
    /\ \E i \in Positions : \E k \in 1..Len(trace[i].inputs) :
          PassOf(trace[i].inputs[k]) > i
    /\ \E i \in Positions : \E k \in 1..Len(trace[i].inputs) :
          PassOf(trace[i].inputs[k]) = i

\* ------------------------------------------------------------------ C5
\* C5: when dispatch() has returned, read(X) of every non-final pass X is the
\* texture X's pass wrote in that call, the same texture every later-declared
\* pass listing X bound, and not the texture read(X) named when the call began.
JustDispatched == phase \in {"fresh_d", "d", "dd", "dfd"}

C5_ReadAfterDispatch ==
    JustDispatched =>
        \A i \in Positions :
            WritesBuffer(trace[i]) =>
                /\ get_read_texture(trace[i].name).id = Written(trace[i])
                /\ get_read_texture(trace[i].name)
                     # ReadTextureOf(buffers, trace[1].bits, trace[i].name)
                /\ \A j \in Positions : \A k \in 1..Len(trace[j].inputs) :
                      (j > i /\ trace[j].inputs[k] = trace[i].name) =>
                          trace[j].reads[k] = get_read_texture(trace[i].name)

C5_Witness ==
    /\ passes = Lich
    /\ phase = "dd"
    /\ get_read_texture("buffer_b") = trace[3].reads[1]
    /\ get_read_texture("buffer_a") = trace[2].reads[1]

\* ------------------------------------------------------------------ C6
SelfFeedback(i) == {k \in 1..Len(trace[i].inputs) : trace[i].inputs[k] = trace[i].name}

OtherSide(n, id) ==
    IF buffers[n][1].id = id THEN buffers[n][2].id ELSE buffers[n][1].id

C7_FlipPreservesFeedback ==
    phase = "dfd" =>
        \A i \in Positions : \A k \in 1..Len(trace[i].inputs) :
            LET j == PassOf(trace[i].inputs[k]) IN
            (j # 0 /\ j >= i /\ WritesBuffer(prev_trace[j])) =>
                trace[i].reads[k].id = Written(prev_trace[j])

\* ------------------------------------------------------------------ C8
BindGroupsViewTextures ==
    /\ \A n \in DOMAIN bind_groups :
          /\ bind_groups[n][1].view = buffers[n][1].id
          /\ bind_groups[n][2].view = buffers[n][2].id
    /\ output_bind_group.view = output_texture.id

\* C8: a clear_all() step leaves every bit false, replaces both textures and
\* both bind groups of every buffer and the Output texture and bind group by
\* resources created in that call, and keeps the tracked names and the stored
\* width and height.
C8_ClearAllRecreates ==
    [][ last_op'.op = "clear_all" =>
          /\ \A n \in DOMAIN write_side' : ~write_side'[n]
          /\ LiveIds' \cap LiveIds = {}
          /\ \A id \in LiveIds' : id >= next_id
          /\ Cardinality(LiveIds') = 4 * Cardinality(DOMAIN buffers) + 2
          /\ BindGroupsViewTextures'
          /\ DOMAIN buffers' = DOMAIN buffers
          /\ DOMAIN bind_groups' = DOMAIN bind_groups
          /\ DOMAIN write_side' = DOMAIN write_side
          /\ width' = width
          /\ height' = height ]_vars

C8_Witness ==
    /\ last_op.op = "clear_all"
    /\ generation = 2
    /\ \A n \in Registered : ~write_side[n]
    /\ \A id \in LiveIds : id >= 3 + 8 * Len(passes)

\* ------------------------------------------------------------------ C9
Handles(n) ==
    {get_read_texture(n), get_write_texture(n), get_output_texture}

\* C9: a resize(w, h) step stores (w, h) and then does what clear_all() does:
\* every handle read, write, get_write_bind_group and the Output accessors
\* return afterwards was created in that call with extent (w, h), and every
\* bit is false.
C9_ResizeRecreates ==
    [][ last_op'.op = "resize" =>
          /\ width' = last_op'.w
          /\ height' = last_op'.h
          /\ \A n \in Registered' :
                /\ \A t \in Handles(n)' :
                      /\ t.id >= next_id
                      /\ t.id \notin LiveIds
                      /\ t.width = last_op'.w
                      /\ t.height = last_op'.h
                /\ get_write_bind_group(n)'.id >= next_id
                /\ get_write_bind_group(n)'.view = get_write_texture(n)'.id
                /\ ~write_side'[n]
          /\ get_output_bind_group'.id >= next_id
          /\ get_output_bind_group'.view = get_output_texture'.id
          /\ Manager' = ClearAllOf([Manager EXCEPT !.width = last_op'.w,
                                                   !.height = last_op'.h], next_id) ]_vars

C9_Witness ==
    /\ last_op = [op |-> "resize", w |-> 1, h |-> 1]
    /\ generation = 2
    /\ \A t \in LiveTextures : t.width = 1 /\ t.height = 1

\* ------------------------------------------------------------------ C10
\* C10: read and write of every name the manager was created with succeed in
\* every reachable state, no dispatch() fails, and in a dispatch() that
\* directly follows new, clear_all() or resize() every bit is false when the
\* first pass resolves its targets.
C10_LookupsSucceed ==
    /\ ~panicked
    /\ \A n \in Registered :
          /\ get_read_texture(n) \in LiveTextures
          /\ get_write_texture(n) \in LiveTextures
          /\ get_write_bind_group(n) \in LiveBindGroups
    /\ JustDispatched =>
          /\ Len(trace) = Len(passes)
          /\ \A i \in Positions : ~Failed(trace[i])
    /\ phase = "fresh_d" => \A n \in Registered : ~trace[1].bits[n]

C10_Witness ==
    /\ phase = "fresh_d"
    /\ generation >= 1
    /\ Len(trace) = Len(passes)
    /\ ~panicked

\* ------------------------------------------------------------------ C11
\* C11: get_read_texture, get_write_texture and get_write_bind_group of a name
\* the manager does not hold end in the panic "Buffer not found", never in a
\* handle of some resource, and the step that panics leaves every bit, every
\* resource and the extent of the manager as they were.
ManagerFields ==
    << buffers, bind_groups, write_side, output_texture, output_bind_group,
       width, height >>

C11_UnregisteredIsFatal ==
    [][ /\ \A n \in NameUniverse \ Registered :
             /\ get_read_texture(n) = Panic
             /\ get_write_texture(n) = Panic
             /\ get_write_bind_group(n) = Panic
        /\ (panicked' /\ last_op'.op \in Getters) =>
             /\ last_op'.name \notin Registered
             /\ ManagerFields' = ManagerFields ]_vars

C11_Witness ==
    /\ panicked
    /\ last_op.op = "get_write_texture"
    /\ generation >= 1
    /\ \E n \in Registered : write_side[n]

\* ------------------------------------------------------------------ C12
\* the configuration as accumulated so far, or as build() returned it
Accumulated == IF config # None THEN config[1] ELSE builder

PassNames(ps) == [i \in 1..Len(ps) |-> ps[i].name]

\* the last call among with_entry_point and with_multi_pass decides
LastEntryCallWins ==
    /\ calls.entry.method = "new" =>
          Accumulated.entry_points = <<"main">> /\ Accumulated.passes = None
    /\ calls.entry.method = "with_entry_point" =>
          Accumulated.entry_points = <<calls.entry.entry_point>>
    /\ calls.entry.method = "with_multi_pass" =>
          /\ Accumulated.entry_points = PassNames(calls.entry.passes)
          /\ Accumulated.passes = Some(calls.entry.passes)

EntryThenMulti(e, ps) == with_multi_pass(with_entry_point(builder, e), ps)

MultiThenEntry(e, ps) == with_entry_point(with_multi_pass(builder, ps), e)

\* C12 as stated: the entry points follow the last call among with_entry_point
\* and with_multi_pass, and for every entry point e and pass list p the two
\* orders of the calls give different configurations.
C12_NeverCommute ==
    /\ LastEntryCallWins
    /\ \A e \in EntryPoints, ps \in BuilderPassLists :
          EntryThenMulti(e, ps) # MultiThenEntry(e, ps)

\* C12 amended: the entry points follow the last call among with_entry_point
\* and with_multi_pass (after with_multi_pass they are the pass names in
\* declaration order); the two orders give different configurations except
\* when the pass list is the single pass named e, where they give the same.
C12_LastEntryCallWins ==
    /\ LastEntryCallWins
    /\ \A e \in EntryPoints, ps \in BuilderPassLists :
          /\ EntryThenMulti(e, ps).entry_points = PassNames(ps)
          /\ MultiThenEntry(e, ps).entry_points = <<e>>
          /\ (EntryThenMulti(e, ps) = MultiThenEntry(e, ps)) <=> (PassNames(ps) = <<e>>)

C12_Witness ==
    /\ config # None
    /\ calls.before = "with_entry_point"
    /\ calls.entry.method = "with_multi_pass"
    /\ Len(config[1].entry_points) = 3

\* ------------------------------------------------------------------ C13
FeaturePosition(feature) ==
    CHOOSE i \in 1..Len(FeatureOrder) : FeatureOrder[i] = feature

\* features the builder calls made so far have enabled, before `feature`
EnabledBefore(feature) ==
    {g \in calls.features : FeaturePosition(g) < FeaturePosition(feature)}

\* C13: the Group 2 bindings depend only on which features the builder calls
\* enabled, whatever the order of the calls: exactly the enabled features get
\* bindings, each starts right after the bindings of the enabled features
\* before it in the order mouse, fonts, audio, audio_spectrum, atomics,
\* channels, and so two enabled features keep their relative order.
C13_Group2Slots ==
    \E layout \in {Group2Layout(Accumulated)} :
        /\ {layout[i].feature : i \in 1..Len(layout)} = calls.features
        /\ \A i \in 1..Len(layout) :
              layout[i].binding =
                  Cardinality(EnabledBefore(layout[i].feature))
                  + (IF "fonts" \in EnabledBefore(layout[i].feature) THEN 1 ELSE 0)
        /\ \A i, j \in 1..Len(layout) :
              i < j => /\ FeaturePosition(layout[i].feature)
                            < FeaturePosition(layout[j].feature)
                       /\ layout[i].binding < layout[j].binding

C13_Witness ==
    /\ config # None
    /\ calls.features = {"fonts", "audio", "channels"}
    /\ Group2Layout(config[1]) =
          << [feature |-> "fonts", binding |-> 0],
             [feature |-> "audio", binding |-> 2],
             [feature |-> "channels", binding |-> 3] >>

\* ------------------------------------------------------------------ C14
\* the side of buffer n that held its latest write when the bits were ws
ReadSideAt(ws, n) == IF ws[n] THEN buffers[n][1] ELSE buffers[n][2]

\* C14: a pass of dispatch() with k inputs, 1 <= k <= 3, gets its three input
\* slots bound in the order of its inputs list: slot i to the read side of
\* inputs[i] for i < k and to the read side of inputs[0] for i >= k, each a
\* texture the manager holds.
C14_InputSlots ==
    \A i \in Positions :
        (Len(trace[i].inputs) >= 1 /\ Len(trace[i].inputs) <= InputSlotCount) =>
            /\ trace[i].inputs = passes[i].inputs
            /\ DOMAIN trace[i].slots = 1..InputSlotCount
            /\ \A s \in 1..InputSlotCount :
                  /\ trace[i].slots[s] =
                        ReadSideAt(trace[i].bits,
                                   IF s <= Len(passes[i].inputs)
                                   THEN passes[i].inputs[s]
                                   ELSE passes[i].inputs[1])
                  /\ trace[i].slots[s] \in LiveTextures

C14_Witness ==
    /\ phase = "dd"
    /\ passes = Feedback
    /\ trace[1].slots[3] = trace[1].slots[1]
    /\ trace[2].slots[3] = trace[2].slots[1]
    /\ trace[2].slots[2] # trace[2].slots[1]
    /\ trace[3].slots[3] = buffers["main_image"][2]
    /\ trace[2].slots[1] = buffers["buffer_b"][1]

\* ------------------------------------------------------------------ C15
\* the surface extent along axis 1 (x) or 2 (y)
Dimension(axis) == IF axis = 1 THEN width ELSE height

\* C15: a pass without an override is dispatched, along x and y, with the
\* least count g such that g * workgroup size covers the surface extent (one
\* layer along z), the workgroup size being the one given to the builder; a
\* pass with an override [x, y, z] is dispatched with exactly [x, y, z].
C15_DispatchGrid ==
    \A i \in Positions :
        IF passes[i].workgroup_size = None
        THEN /\ \A axis \in 1..2 :
                  /\ trace[i].grid[axis] * calls.workgroup_size[axis] >= Dimension(axis)
                  /\ trace[i].grid[axis] * calls.workgroup_size[axis]
                        < Dimension(axis) + calls.workgroup_size[axis]
             /\ trace[i].grid[3] = 1
        ELSE trace[i].grid = passes[i].workgroup_size[1]

C15_Witness ==
    /\ passes = Layers
    /\ width = 5
    /\ height = 4
    /\ calls.workgroup_size = <<2, 3, 1>>
    /\ Len(trace) = 3
    /\ trace[1].grid = <<28, 28, 1>>
    /\ trace[2].grid = <<12, 12, 16>>
    /\ trace[3].grid = <<3, 2, 1>>

\* ------------------------------------------------------------------ C16
\* the bind groups of all ping-pong sides
PingPongBindGroups ==
    UNION {{bind_groups[n][1], bind_groups[n][2]} : n \in DOMAIN bind_groups}

\* C16: in a dispatch() the final pass binds the Output as its write target
\* and no ping-pong side; every other pass binds the write side of the buffer
\* of its own name and never the Output. So only the final pass writes the
\* Output texture and it writes no buffer.
C16_FinalPassWritesOutput ==
    \A i \in Positions :
        IF passes[i].name = "main_image"
        THEN /\ trace[i].target = output_bind_group
             /\ trace[i].target.view = output_texture.id
             /\ trace[i].target \notin PingPongBindGroups
        ELSE /\ trace[i].target =
                    (IF trace[i].bits[passes[i].name]
                     THEN bind_groups[passes[i].name][2]
                     ELSE bind_groups[passes[i].name][1])
             /\ trace[i].target # output_bind_group
             /\ trace[i].target.view # output_texture.id

C16_Witness ==
    /\ phase = "dd"
    /\ passes = Lich
    /\ generation >= 1
    /\ trace[1].target = bind_groups["buffer_a"][2]
    /\ trace[2].target = bind_groups["buffer_b"][2]
    /\ trace[3].target = output_bind_group

\* ------------------------------------------------------------------ C17
\* C17: a hot-reload check that finds an edited kernel failing to compile
\* leaves the running pipelines, the bits and resources of the manager and
\* the configuration as they were; the pipelines change only in a check whose
\* kernel compiled.
C17_FailedReloadKeepsPipelines ==
    [][ /\ (last_op'.op = "check_hot_reload" /\ ~last_op'.compiled) =>
             /\ pipelines' = pipelines
             /\ pipelines' # <<>>
             /\ ManagerFields' = ManagerFields
             /\ config' = config
        /\ pipelines' # pipelines =>
             (last_op'.op = "check_hot_reload" /\ last_op'.compiled) ]_vars

C17_Witness ==
    /\ last_op.op = "check_hot_reload"
    /\ ~last_op.compiled
    /\ pipelines[1].module = 1
    /\ phase = "dd"

\* ------------------------------------------------------------------ C18
\* input lists a caller may write: none, one naming no pass, one too long
InputLists ==
    { <<>>, <<"buffer_c">>, <<"buffer_a", "buffer_a">>,
      <<"buffer_b", "buffer_a", "buffer_b", "buffer_a">> }

\* an input of a recorded pass names no buffer of the manager
UnknownInput(r) == \E k \in 1..Len(r.inputs) : r.inputs[k] \notin DOMAIN buffers

\* C18: PassDescription::new keeps every input it is given, in order, however
\* many; the builder stores the pass list as handed over, be it with four
\* inputs, an input naming no pass or a repeated pass name; build() returns
\* the accumulated configuration as it is; nothing fails before the shader
\* exists, and a failure is a lookup of dispatch() for an unknown input.
C18_NoValidation ==
    /\ \A inputs \in InputLists :
          PassDescription_new("buffer_b", inputs) =
              [name |-> "buffer_b", inputs |-> inputs, workgroup_size |-> None]
    /\ calls.entry.method = "with_multi_pass" =>
          /\ Accumulated.passes = Some(calls.entry.passes)
          /\ \A i \in 1..Len(calls.entry.passes) :
                Accumulated.passes[1][i].inputs = calls.entry.passes[i].inputs
    /\ config # None => config[1] = builder
    /\ panicked =>
          /\ pipelines # <<>>
          /\ last_op.op = "dispatch"
          /\ UnknownInput(trace[Len(trace)])
    /\ (last_op.op = "dispatch" /\ \E i \in 1..Len(passes) : UnknownInput(passes[i]))
          => panicked

C18_Witness ==
    /\ panicked
    /\ config[1].passes = Some(Undeclared)
    /\ Len(trace) = 1

\* ------------------------------------------------------------------ C19
\* the bits after the bit of name alone was toggled in ws
ToggledOnly(ws, name) == [n \in DOMAIN ws |-> IF n = name THEN ~ws[n] ELSE ws[n]]

\* C19: right after a dispatch() there is one recorded pass per declared
\* pass, in declaration order; between one pass and the next (and after the
\* last) exactly the bit of the pass just recorded was toggled; no two passes
\* wrote the same texture; and the bit of every pass-named buffer is the
\* negation of its value at the start of the call.
C19_OneCommitPerPass ==
    JustDispatched =>
        /\ Len(trace) = Len(passes)
        /\ \A i \in Positions : trace[i].name = passes[i].name
        /\ \A i \in Positions :
              (IF i < Len(trace) THEN trace[i + 1].bits ELSE write_side)
                  = ToggledOnly(trace[i].bits, passes[i].name)
        /\ \A i, j \in Positions :
              (i # j /\ WritesBuffer(trace[i]) /\ WritesBuffer(trace[j]))
                  => Written(trace[i]) # Written(trace[j])
        /\ \A i \in Positions :
              WritesBuffer(trace[i]) =>
                  Written(trace[i]) \in {buffers[passes[i].name][1].id,
                                         buffers[passes[i].name][2].id}
        /\ \A n \in Registered : write_side[n] = ~trace[1].bits[n]

C19_Witness ==
    /\ phase = "dd"
    /\ passes = Diamond
    /\ \A n \in Registered : ~write_side[n] /\ trace[1].bits[n]
    /\ trace[4].bits = [n \in Registered |-> n = "buffer_d"]

\* ------------------------------------------------------------------ C20
\* every order in which the names of S can be committed once each
Orders(S) ==
    {o \in [1..Cardinality(S) -> S] :
        \A i, j \in 1..Cardinality(S) : o[i] = o[j] => i = j}

\* mark_written of order[i], order[i + 1], ... applied to ws
RECURSIVE CommitAll(_, _, _)
CommitAll(ws, order, i) ==
    IF i > Len(order) THEN ws
    ELSE CommitAll(MarkWrittenOf(ws, order[i]), order, i + 1)

\* C20: a flip_buffers() step toggles the bit of every tracked buffer and
\* changes no texture, bind group, extent or tracked name; its result is the
\* result of mark_written once per tracked name, in whatever order; and a
\* second flip_buffers() gives back the bits from before the first.
C20_FlipAllTogglesEveryBit ==
    [][ last_op'.op = "flip_buffers" =>
          /\ DOMAIN write_side' = DOMAIN write_side
          /\ \A n \in DOMAIN write_side : write_side'[n] = ~write_side[n]
          /\ << buffers, bind_groups, output_texture, output_bind_group,
                width, height, next_id >>' =
             << buffers, bind_groups, output_texture, output_bind_group,
                width, height, next_id >>
          /\ \A order \in Orders(DOMAIN write_side) :
                CommitAll(write_side, order, 1) = write_side'
          /\ FlipBuffersOf(write_side') = write_side ]_vars

C20_Witness ==
    /\ last_op.op = "flip_buffers"
    /\ passes = Diamond
    /\ write_side = [n \in Registered |-> n \in {"buffer_a", "buffer_c"}]
    /\ generation >= 1

\* ------------------------------------------------------------------ C21
\* C21: the manager made from a list of names holds, per distinct name, one
\* pair of textures, one pair of bind groups and one bit, plus one Output
\* texture with its bind group, all different resources; every bit is false,
\* so write resolves to side .0 and read to side .1 of every buffer.
C21_NewManager ==
    last_op.op = "from_builder" =>
        /\ DOMAIN buffers = {passes[i].name : i \in 1..Len(passes)}
        /\ DOMAIN bind_groups = DOMAIN buffers
        /\ DOMAIN write_side = DOMAIN buffers
        /\ Cardinality(LiveIds) = 4 * Cardinality(DOMAIN buffers) + 2
        /\ output_bind_group.view = output_texture.id
        /\ \A n \in DOMAIN buffers :
              /\ write_side[n] = FALSE
              /\ bind_groups[n][1].view = buffers[n][1].id
              /\ bind_groups[n][2].view = buffers[n][2].id
              /\ get_write_texture(n) = buffers[n][1]
              /\ get_write_bind_group(n) = bind_groups[n][1]
              /\ get_read_texture(n) = buffers[n][2]

C21_Witness ==
    /\ last_op.op = "from_builder"
    /\ passes = Duplicate
    /\ DOMAIN write_side = {"buffer_a", "main_image"}
    /\ get_read_texture("buffer_a") = buffers["buffer_a"][2]

\* ------------------------------------------------------------------ C22
\* C22: in every pass a dispatch() recorded, the texture behind the write
\* target is none of the textures bound to the three input slots, also when
\* the pass reads its own buffer or the buffer of a pass declared after it.
C22_WriteTargetNotAnInput ==
    \A i \in Positions :
        /\ trace[i].target \in LiveBindGroups
        /\ \A s \in 1..InputSlotCount :
              /\ trace[i].slots[s] \in LiveTextures
              /\ trace[i].slots[s].id # trace[i].target.view

C22_Witness ==
    /\ phase = "dd"
    /\ passes = Feedback
    /\ trace[1].slots[1] = buffers["buffer_b"][1]
    /\ trace[2].slots[1] = buffers["buffer_b"][1]
    /\ trace[2].target = bind_groups["buffer_b"][2]
    /\ trace[3].slots[3] = buffers["main_image"][2]

\* ------------------------------------------------------------------ C23
\* the latest pass before position i, in the same dispatch(), that writes the
\* buffer named by input k of pass i
ProducersBefore(i, k) ==
    {j \in 1..(i - 1) :
        /\ passes[j].name = passes[i].inputs[k]
        /\ ~IsFinalPass(passes[j])
        /\ \A l \in (j + 1)..(i - 1) : passes[l].name # passes[j].name}

\* the latest dispatch() replayed from the same bits with every bit toggled
\* after each pass
GlobalFlipTrace == RunPassesGlobalFlip(passes, 1, trace[1].bits, <<>>).trace

\* with per-buffer commits a pass reads what the producer wrote earlier in
\* the same dispatch(), however many passes lie between, and a pass that
\* also lists itself reads what it wrote the frame before
PerBufferResolves ==
    /\ \A i \in Positions : \A k \in 1..Len(passes[i].inputs) :
          \A j \in ProducersBefore(i, k) :
              trace[i].reads[k].id = Written(trace[j])
    /\ phase = "dd" =>
          \A i \in Positions : \A k \in SelfFeedback(i) :
              (WritesBuffer(trace[i]) /\ ProducersBefore(i, k) = {}) =>
                  trace[i].reads[k].id = Written(prev_trace[i])

WriteSideOf(q) ==
    CASE q.op = "get_write_texture" -> IF q.result = buffers[q.name][1] THEN 1 ELSE 2
      [] q.op = "get_write_bind_group" ->
            IF q.result = bind_groups[q.name][1] THEN 1 ELSE 2
      [] q.op = "get_read_texture" -> IF q.result = buffers[q.name][1] THEN 2 ELSE 1
      [] q.op = "get_write_side" -> IF q.result THEN 2 ELSE 1

\* the texture of the Output, as the answer q of an accessor tells it
OutputOf(q) == IF q.op = "get_output_texture" THEN q.result.id ELSE q.result.view

\* C25: a query step (read, write, get_write_bind_group, get_write_side, the
\* Output accessors) leaves every field of the manager as it was, and a
\* query that directly follows another query for the same name, with no
\* commit, flip_buffers, clear_all or resize between, tells the same side.
C25_QueriesArePure ==
    [][ last_op'.op \in NamedQueries \cup OutputAccessors =>
          /\ Manager' = Manager
          /\ generation' = generation
          /\ ~panicked'
          /\ ( /\ last_op.op \in NamedQueries
               /\ last_op'.op \in NamedQueries
               /\ last_op.name = last_op'.name ) =>
                   WriteSideOf(last_op) = WriteSideOf(last_op')
          /\ ( /\ last_op.op \in OutputAccessors
               /\ last_op'.op \in OutputAccessors ) =>
                   OutputOf(last_op) = OutputOf(last_op')
      ]_vars

\* read of buffer_a asked after a clear_all and one commit
C25_Witness ==
    /\ last_op.op = "get_read_texture"
    /\ last_op.name = "buffer_a"
    /\ generation = 1
    /\ commits["buffer_a"] = 1
    /\ write_side["buffer_a"]
    /\ last_op.result = buffers["buffer_a"][1]

\* ------------------------------------------------------------------ C26
\* C26: in every reachable state the textures, the bind groups and the bits
\* are kept for the same names, the distinct names of the pass list the
\* manager was made from; mark_written, flip_buffers, clear_all and resize
\* add and remove none.
C26_SameKeys ==
    /\ DOMAIN buffers = Range(BufferNames(passes))
    /\ DOMAIN bind_groups = Range(BufferNames(passes))
    /\ DOMAIN write_side = Range(BufferNames(passes))

\* three declared passes, two names: after two clear_all()/resize() calls
\* and a flip_buffers(), mark_written("buffer_a") has just returned
C26_Witness ==
    /\ passes = Duplicate
    /\ generation = 2
    /\ last_op.op = "mark_written"
    /\ commits["buffer_a"] = 1
    /\ commits["main_image"] = 0
    /\ ~write_side["buffer_a"]
    /\ Len(passes) = 3
    /\ DOMAIN buffers = {"buffer_a", "main_image"}

\* ------------------------------------------------------------------ C27
\* C27: in every reachable state, for every tracked buffer, bind group .0
\* views the texture now kept as .0 and bind group .1 the texture now kept as
\* .1, the two being different textures; so the bind group and the texture
\* that write resolves to are the same side, and it is not the side read
\* resolves to. This holds after clear_all() and resize() as well.
C27_BindGroupOfSameSide ==
    \A n \in DOMAIN bind_groups :
        /\ \A side \in 1..2 : bind_groups[n][side].view = buffers[n][side].id
        /\ buffers[n][1].id # buffers[n][2].id
        /\ get_write_bind_group(n).view = get_write_texture(n).id
        /\ get_write_bind_group(n).view # get_read_texture(n).id

\* after a resize() and a commit of buffer_a: write resolves to side .1 of
\* the textures made by the resize
C27_Witness ==
    /\ last_op.op = "mark_written"
    /\ generation = 1
    /\ width = 1
    /\ write_side["buffer_a"]
    /\ get_write_bind_group("buffer_a") = bind_groups["buffer_a"][2]
    /\ get_write_texture("buffer_a") = buffers["buffer_a"][2]
    /\ buffers["buffer_a"][2].width = 1
    /\ buffers["buffer_a"][2].id >= 3 + 4 * Len(passes)

\* ------------------------------------------------------------------ C28
\* C28: a mark_written step that counted no commit of a tracked buffer, so
\* one called with a name that is not tracked, does not fail and leaves every
\* field of the manager, the tracked names included, as it was; and
\* get_write_side asked for a name that is not tracked answers false and
\* does not fail.
C28_UnknownCommitIsNoop ==
    [][ /\ (last_op'.op = "mark_written" /\ commits' = commits) =>
              /\ Manager' = Manager
              /\ ~panicked'
        /\ (last_op'.op = "get_write_side" /\ last_op'.name \notin Registered) =>
              /\ last_op'.result = FALSE
              /\ Manager' = Manager
              /\ ~panicked'
      ]_vars

\* after a flip_buffers(), mark_written of a name that is not tracked has
\* just returned: no commit is counted and no bit has moved
C28_Witness ==
    /\ last_op.op = "mark_written"
    /\ \A n \in Registered : commits[n] = 0
    /\ write_side["buffer_a"]
    /\ write_side = initial_side
    /\ ~panicked
    /\ "buffer_c" \notin DOMAIN write_side
    /\ get_write_side("buffer_c") = FALSE

\* ------------------------------------------------------------------ C29
\* the fields in which the configurations a and b differ
Diff(a, b) == {f \in DOMAIN a : a[f] # b[f]}

Flags ==
    {"has_input_texture", "has_mouse", "has_fonts", "has_audio",
     "has_audio_spectrum", "has_atomic_buffer", "dispatch_once"}

\* every call that can be made on the builder as it stands: the method, the
\* builder it returns and the fields the method is about
BuilderCalls ==
    {[method |-> "with_entry_point", after |-> with_entry_point(builder, e),
      own |-> {"entry_points"}] : e \in EntryPoints}
    \cup {[method |-> "with_multi_pass", after |-> with_multi_pass(builder, ps),
           own |-> {"passes", "entry_points"}] : ps \in BuilderPassLists}
    \cup {[method |-> "with_channels", after |-> with_channels(builder, n),
           own |-> {"num_channels"}] : n \in 1..2}
    \cup { [method |-> "with_custom_uniforms",
            after |-> with_custom_uniforms(builder, 16),
            own |-> {"custom_uniform_size"}],
           [method |-> "with_input_texture", after |-> with_input_texture(builder),
            own |-> {"has_input_texture"}],
           [method |-> "with_mouse", after |-> with_mouse(builder),
            own |-> {"has_mouse"}],
           [method |-> "with_fonts", after |-> with_fonts(builder),
            own |-> {"has_fonts"}],
           [method |-> "with_audio", after |-> with_audio(builder, 2048),
            own |-> {"has_audio", "audio_buffer_size"}],
           [method |-> "with_audio_spectrum",
            after |-> with_audio_spectrum(builder, 69),
            own |-> {"has_audio_spectrum", "audio_spectrum_size"}],
           [method |-> "with_atomic_buffer", after |-> with_atomic_buffer(builder),
            own |-> {"has_atomic_buffer"}],
           [method |-> "with_storage_buffer",
            after |-> with_storage_buffer(builder,
                          StorageBufferSpec_new("canvas_data", 3136)),
            own |-> {"storage_buffers"}],
           [method |-> "with_storage_buffers",
            after |-> with_storage_buffers(builder,
                          <<StorageBufferSpec_new("conv1_data", 9216)>>),
            own |-> {"storage_buffers"}],
           [method |-> "with_workgroup_size",
            after |-> with_workgroup_size(builder, <<8, 8, 1>>),
            own |-> {"workgroup_size"}],
           [method |-> "dispatch_once", after |-> dispatch_once(builder),
            own |-> {"dispatch_once"}],
           [method |-> "with_texture_format",
            after |-> with_texture_format(builder, "Rgba8Unorm"),
            own |-> {"texture_format"}],
           [method |-> "with_label", after |-> with_label(builder, "CNN"),
            own |-> {"label"}],
           [method |-> "with_hot_reload",
            after |-> with_hot_reload(builder, "shaders/cnn.wgsl"),
            own |-> {"hot_reload_path"}],
           [method |-> "build", after |-> build(builder), own |-> {}] }

\* C29: whatever calls came before, every builder method returns a
\* configuration that differs from the one it was called on in its own
\* fields only; no method but with_multi_pass changes the pass list, so
\* with_entry_point keeps a list stored earlier; and a flag that is true
\* stays true through every call. Each step of the builder changes the
\* configuration in the way one of these calls does.
C29_OwnFieldsOnly ==
    [][ /\ \A c \in BuilderCalls :
              /\ Diff(builder, c.after) \subseteq c.own
              /\ c.method # "with_multi_pass" => c.after.passes = builder.passes
              /\ \A f \in Flags : builder[f] => c.after[f]
        /\ builder' # builder =>
              /\ \E c \in BuilderCalls : Diff(builder, builder') \subseteq c.own
              /\ \A f \in Flags : builder[f] => builder'[f]
              /\ builder'.passes # builder.passes =>
                    calls'.entry.method = "with_multi_pass"
      ]_vars

\* with_multi_pass, with_mouse, then with_entry_point: the list and the flag
\* are still there
C29_Witness ==
    /\ calls.count = 3
    /\ calls.entry.method = "with_entry_point"
    /\ calls.before = "with_multi_pass"
    /\ builder.passes = Some(Lich)
    /\ builder.entry_points = <<"main">>
    /\ builder.has_mouse

\* ------------------------------------------------------------------ C30
\* the buffer n is named by one declared pass, so one dispatch() commits it
\* once
CommittedOnce(n) == Cardinality({i \in 1..Len(passes) : passes[i].name = n}) = 1

====
